---- MODULE Spec2Model ----
(***************************************************************************)
(* Highlight selection pipeline of speckit-bmad: the two implementations   *)
(* track1-speckit and track2-bmad of scoring, ranking, selection and       *)
(* explanation, modelled as operators over an event list that a caller     *)
(* builds and then hands to select_highlights.                             *)
(***************************************************************************)
EXTENDS Integers, Sequences, FiniteSets, TLC

VARIABLES
    events,     \* the list of GameEvent handed to select_highlights
    pref,       \* the Optional[UserPreference] argument
    min_count,  \* the min_count argument
    max_count,  \* the max_count argument
    pc,         \* what the caller does next
    hl1,        \* the list of Highlight returned by track1-speckit
    hl2,        \* the list of Highlight returned by track2-bmad
    ev,         \* the event handed to the scoring function, if any
    bd1,        \* the ScoreBreakdown returned by track1 score_event, if any
    bd2,        \* the ScoreBreakdown returned by track2 calculate_score, if any
    ex1,        \* the text returned by track1 generate_explanation, if any
    ex2,        \* the text returned by track2 _generate_explanation, if any
    given,      \* the arguments as the caller handed them to select_highlights
    wire,       \* the dict returned by track1 GameEvent.to_dict, if any
    back,       \* the GameEvent returned by track1 GameEvent.from_dict, if any
    sel2        \* the list returned by track2 _apply_favorite_player_rule

vars ==
    <<events, pref, min_count, max_count, pc, hl1, hl2, ev, bd1, bd2, ex1, ex2,
      given, wire, back, sel2>>

(***************************************************************************)
(* Bounds of the model.                                                    *)
(***************************************************************************)
MaxEvents == 4   \* events in a list of arbitrary plays
MaxCount == 2    \* largest min_count / max_count passed explicitly
MaxPlays == 7    \* events in a list of key plays selected with the defaults
MaxTags == 2     \* tags on an event handed to the scoring function
MaxShuffled == 3 \* events in a list handed over in arbitrary order
MaxRated == 3    \* events in a list with importance values outside the table

(***************************************************************************)
(* Python values.  None is a sentinel string; an Optional[UserPreference]  *)
(* is a sequence of length 0 (None) or 1 (the object).  A str used as an   *)
(* event id is the sequence of its characters (digits), so that Python's   *)
(* lexicographic str comparison is computed, not assumed.                  *)
(***************************************************************************)
None == "<None>"

Truthy(s) == s # None /\ s # ""

RECURSIVE StrLess(_, _)
StrLess(a, b) ==
    IF a = <<>> THEN b # <<>>
    ELSE IF b = <<>> THEN FALSE
    ELSE IF Head(a) # Head(b) THEN Head(a) < Head(b)
    ELSE StrLess(Tail(a), Tail(b))

\* The game log the loader reads: id, quarter and tags of the i-th record
\* (ids "3", "10", "2", "1", "20", "0", "11", "01"); who played and how
\* important the play was is open.
GameLog ==
    << [id |-> <<3>>, quarter |-> 5, tags |-> <<>>],
       [id |-> <<1, 0>>, quarter |-> 5, tags |-> <<>>],
       [id |-> <<2>>, quarter |-> 3, tags |-> <<"game_winner">>],
       [id |-> <<1>>, quarter |-> 3, tags |-> <<>>],
       [id |-> <<2, 0>>, quarter |-> 4, tags |-> <<"clutch">>],
       [id |-> <<0>>, quarter |-> 4, tags |-> <<>>],
       [id |-> <<1, 1>>, quarter |-> 1, tags |-> <<>>],
       [id |-> <<0, 1>>, quarter |-> 2, tags |-> <<>>] >>

Importances == {"critical", "high", "low"}
KeyImportances == {"critical", "high"}
Players == {"LeBron", "Curry"}
Types == {"three_pointer"}

Roster(p) == IF p = "LeBron" THEN "Lakers" ELSE "Warriors"

GameEvent(id, type, quarter, player, team, importance, tags) ==
    [id |-> id, type |-> type, timestamp |-> "", quarter |-> quarter,
     player |-> player, team |-> team, description |-> "",
     importance |-> importance, tags |-> tags]

UserPreference(fp, ft) == [favorite_player |-> fp, favorite_team |-> ft]

Preferences ==
    {<<>>, <<UserPreference(None, None)>>, <<UserPreference("LeBron", None)>>}

(***************************************************************************)
(* dict: a sequence of <<key, value>> pairs in insertion order.            *)
(***************************************************************************)
DictHas(d, k) == \E i \in 1..Len(d) : d[i][1] = k

DictSet(d, k, v) ==
    IF DictHas(d, k)
    THEN [i \in 1..Len(d) |-> IF d[i][1] = k THEN <<k, v>> ELSE d[i]]
    ELSE Append(d, <<k, v>>)

DictGet(d, k, default) ==
    IF DictHas(d, k)
    THEN LET i == CHOOSE j \in 1..Len(d) : d[j][1] = k IN d[i][2]
    ELSE default

RECURSIVE SumValues(_)
SumValues(d) == IF d = <<>> THEN 0 ELSE d[1][2] + SumValues(Tail(d))

(***************************************************************************)
(* track1-speckit: scoring                                                 *)
(***************************************************************************)
BASE_SCORES == << <<"critical", 100>>, <<"high", 75>>, <<"medium", 50>>, <<"low", 25>> >>

\* the table with the buzzer-beater boost of 15
ContextBoostMapBuzzer15 ==
    << <<"clutch", 20>>, <<"highlight_reel", 15>>, <<"game_winner", 25>>,
       <<"buzzer_beater", 15>> >>

CONTEXT_BOOST_MAP ==
    << <<"clutch", 20>>, <<"highlight_reel", 15>>, <<"game_winner", 25>>,
       <<"buzzer_beater", 20>> >>

FOURTH_QUARTER_BOOST == 10
PLAYER_BOOST == 30
TEAM_BOOST == 15

IMPORTANCE_RANK == << <<"critical", 4>>, <<"high", 3>>, <<"medium", 2>>, <<"low", 1>> >>

\* total_score with the team boost left out
PostInitNoTeam(base, player, team, ctx, total) ==
    [base_score |-> base, player_boost |-> player, team_boost |-> team,
     context_boosts |-> ctx,
     total_score |-> IF total = 0 THEN base + player + SumValues(ctx) ELSE total]

\* ScoreBreakdown(...) followed by __post_init__
ScoreBreakdown1(base, player, team, ctx, total) ==
    [base_score |-> base, player_boost |-> player, team_boost |-> team,
     context_boosts |-> ctx,
     total_score |-> IF total = 0 THEN base + player + team + SumValues(ctx)
                     ELSE total]

RECURSIVE TagBoosts(_, _, _)
TagBoosts(tags, map, boosts) ==
    IF tags = <<>> THEN boosts
    ELSE TagBoosts(Tail(tags), map,
                   IF DictHas(map, Head(tags))
                   THEN DictSet(boosts, Head(tags), DictGet(map, Head(tags), 0))
                   ELSE boosts)

\* score_event with the fourth-quarter bonus given from quarter 4 on
ScoreEventFromQuarter4(event, prefs) ==
    LET importance == IF DictHas(BASE_SCORES, event.importance)
                      THEN event.importance ELSE "low"
        base_score == DictGet(BASE_SCORES, importance, 0)
        player_boost ==
            IF prefs # <<>> /\ Truthy(prefs[1].favorite_player)
               /\ event.player = prefs[1].favorite_player
            THEN PLAYER_BOOST ELSE 0
        team_boost ==
            IF prefs # <<>> /\ Truthy(prefs[1].favorite_team)
               /\ event.team = prefs[1].favorite_team
            THEN TEAM_BOOST ELSE 0
        tag_boosts == TagBoosts(event.tags, CONTEXT_BOOST_MAP, <<>>)
        context_boosts ==
            IF event.quarter >= 4
            THEN DictSet(tag_boosts, "fourth_quarter", FOURTH_QUARTER_BOOST)
            ELSE tag_boosts
    IN ScoreBreakdown1(base_score, player_boost, team_boost, context_boosts, 0)

score_event(event, prefs) ==
    LET importance == IF DictHas(BASE_SCORES, event.importance)
                      THEN event.importance ELSE "low"
        base_score == DictGet(BASE_SCORES, importance, 0)
        player_boost ==
            IF prefs # <<>> /\ Truthy(prefs[1].favorite_player)
               /\ event.player = prefs[1].favorite_player
            THEN PLAYER_BOOST ELSE 0
        team_boost ==
            IF prefs # <<>> /\ Truthy(prefs[1].favorite_team)
               /\ event.team = prefs[1].favorite_team
            THEN TEAM_BOOST ELSE 0
        tag_boosts == TagBoosts(event.tags, CONTEXT_BOOST_MAP, <<>>)
        context_boosts ==
            IF event.quarter = 4
            THEN DictSet(tag_boosts, "fourth_quarter", FOURTH_QUARTER_BOOST)
            ELSE tag_boosts
    IN ScoreBreakdown1(base_score, player_boost, team_boost, context_boosts, 0)

\* IMPORTANCE_RANK.get(importance, 5)
ImportanceRankUnknownFirst(importance) == DictGet(IMPORTANCE_RANK, importance, 5)

_importance_rank(importance) == DictGet(IMPORTANCE_RANK, importance, 0)

(***************************************************************************)
(* Python tuple comparison of sort keys (int, int, int, str) and the       *)
(* stable list sort.                                                       *)
(***************************************************************************)
KeyLess(a, b) ==
    IF a[1] # b[1] THEN a[1] < b[1]
    ELSE IF a[2] # b[2] THEN a[2] < b[2]
    ELSE IF a[3] # b[3] THEN a[3] < b[3]
    ELSE StrLess(a[4], b[4])

\* A keyed item is <<key, item>>.  Insert x behind every element that does
\* not compare greater than it (the sort is stable).
RECURSIVE Insert(_, _)
Insert(x, s) ==
    IF s = <<>> THEN <<x>>
    ELSE IF KeyLess(x[1], Head(s)[1]) THEN <<x>> \o s
    ELSE <<Head(s)>> \o Insert(x, Tail(s))

RECURSIVE SortFrom(_, _)
SortFrom(s, acc) ==
    IF s = <<>> THEN acc ELSE SortFrom(Tail(s), Insert(Head(s), acc))

\* the items of a list of keyed items, sorted by their keys
SortKeyed(keyed) ==
    LET res == SortFrom(keyed, <<>>)
    IN [i \in 1..Len(keyed) |-> res[i][2]]

\* s[:n] for n >= 0
Take(s, n) == IF n <= 0 THEN <<>> ELSE IF n >= Len(s) THEN s ELSE SubSeq(s, 1, n)

InSeq(s, x) == \E i \in 1..Len(s) : s[i] = x

\* sep.join(parts), every part a sequence of text pieces
RECURSIVE Join(_, _)
Join(sep, parts) ==
    IF parts = <<>> THEN <<>>
    ELSE IF Len(parts) = 1 THEN parts[1]
    ELSE parts[1] \o <<sep>> \o Join(sep, Tail(parts))

IsCritical(item) == item[1].importance = "critical"
IsNotCritical(item) == item[1].importance # "critical"

(***************************************************************************)
(* track1-speckit: ranking, explanation, orchestration                     *)
(***************************************************************************)
\* the key without the id tie-breaker
sort_key1_no_id(item) ==
    <<-item[2].total_score, -item[1].quarter,
      -_importance_rank(item[1].importance), <<>> >>

sort_key1(item) ==
    <<-item[2].total_score, -item[1].quarter,
      -_importance_rank(item[1].importance), item[1].id>>

\* sorted(s, key=sort_key) / s.sort(key=sort_key)
Sorted1(s) == SortKeyed([i \in 1..Len(s) |-> <<sort_key1(s[i]), s[i]>>])

\* for item in non_critical: if len(result) >= max_count: break; append
RECURSIVE FillLoop(_, _, _)
FillLoop(result, rest, maxc) ==
    IF rest = <<>> THEN result
    ELSE IF Len(result) >= maxc THEN result
    ELSE FillLoop(Append(result, Head(rest)), Tail(rest), maxc)

\* rank_and_filter without the final result.sort
RankAndFilterNoResort(scored_events, minc, maxc) ==
    IF scored_events = <<>> THEN <<>>
    ELSE LET sorted_events == Sorted1(scored_events)
             critical0 == SelectSeq(sorted_events, IsCritical)
             non_critical == SelectSeq(sorted_events, IsNotCritical)
             critical == IF Len(critical0) > maxc THEN Take(critical0, maxc)
                         ELSE critical0
         IN FillLoop(critical, non_critical, maxc)

\* rank_and_filter keeping every critical event
RankAndFilterKeepCritical(scored_events, minc, maxc) ==
    IF scored_events = <<>> THEN <<>>
    ELSE LET sorted_events == Sorted1(scored_events)
             critical == SelectSeq(sorted_events, IsCritical)
             non_critical == SelectSeq(sorted_events, IsNotCritical)
             result == FillLoop(critical, non_critical, maxc)
         IN Sorted1(result)

rank_and_filter(scored_events, minc, maxc) ==
    IF scored_events = <<>> THEN <<>>
    ELSE LET sorted_events == Sorted1(scored_events)
             critical0 == SelectSeq(sorted_events, IsCritical)
             non_critical == SelectSeq(sorted_events, IsNotCritical)
             critical == IF Len(critical0) > maxc THEN Take(critical0, maxc)
                         ELSE critical0
             result == FillLoop(critical, non_critical, maxc)
         IN Sorted1(result)

\* str.replace("_", " ") on the event types of the model
ReplaceUnderscore(t) ==
    CASE t = "three_pointer" -> "three pointer"
      [] t = "game_winning_shot" -> "game winning shot"
      [] OTHER -> t

\* text[0].upper() + text[1:] on the first piece of the detail sentence
Capitalize(t) ==
    CASE t = "sealed the victory" -> "Sealed the victory"
      [] t = "in a clutch fourth-quarter moment" -> "In a clutch fourth-quarter moment"
      [] t = "in a clutch moment" -> "In a clutch moment"
      [] t = "right at the buzzer" -> "Right at the buzzer"
      [] t = "a highlight-reel play" -> "A highlight-reel play"
      [] t = "featuring your favorite player, " -> "Featuring your favorite player, "
      [] t = "by your favorite team, the " -> "By your favorite team, the "
      [] OTHER -> t

\* generate_explanation with the highlight-reel clause beside a game winner
GenerateExplanationReelAlways(event, breakdown) ==
    LET event_type_display == ReplaceUnderscore(event.type)
        sentence1 ==
            IF event.importance = "critical"
            THEN <<"This critical ", event_type_display, " by ", event.player,
                   " was a defining moment of the game.">>
            ELSE IF event.importance = "high"
            THEN <<"A high-impact ", event_type_display, " by ", event.player,
                   " that made a significant difference.">>
            ELSE IF event.importance = "medium"
            THEN <<"A notable ", event_type_display, " by ", event.player,
                   " that contributed to the game's story.">>
            ELSE <<"This ", event_type_display, " by ", event.player,
                   " added to the overall flow of the game.">>
        d1 == IF InSeq(event.tags, "game_winner")
              THEN << <<"sealed the victory">> >> ELSE <<>>
        d2 == IF InSeq(event.tags, "clutch") /\ event.quarter = 4
              THEN << <<"in a clutch fourth-quarter moment">> >>
              ELSE IF InSeq(event.tags, "clutch")
              THEN << <<"in a clutch moment">> >> ELSE <<>>
        d3 == IF InSeq(event.tags, "buzzer_beater")
              THEN << <<"right at the buzzer">> >> ELSE <<>>
        d4 == IF InSeq(event.tags, "highlight_reel")
              THEN << <<"a highlight-reel play">> >> ELSE <<>>
        d5 == IF breakdown.player_boost > 0
              THEN << <<"featuring your favorite player, ", event.player>> >>
              ELSE <<>>
        d6 == IF breakdown.team_boost > 0
              THEN << <<"by your favorite team, the ", event.team>> >>
              ELSE <<>>
        details == d1 \o d2 \o d3 \o d4 \o d5 \o d6
        detail_text == Join(", ", details)
        parts == IF details # <<>>
                 THEN <<sentence1,
                        <<Capitalize(Head(detail_text))>> \o Tail(detail_text)
                            \o <<".">> >>
                 ELSE <<sentence1>>
    IN Join(" ", parts)

generate_explanation(event, breakdown) ==
    LET event_type_display == ReplaceUnderscore(event.type)
        sentence1 ==
            IF event.importance = "critical"
            THEN <<"This critical ", event_type_display, " by ", event.player,
                   " was a defining moment of the game.">>
            ELSE IF event.importance = "high"
            THEN <<"A high-impact ", event_type_display, " by ", event.player,
                   " that made a significant difference.">>
            ELSE IF event.importance = "medium"
            THEN <<"A notable ", event_type_display, " by ", event.player,
                   " that contributed to the game's story.">>
            ELSE <<"This ", event_type_display, " by ", event.player,
                   " added to the overall flow of the game.">>
        d1 == IF InSeq(event.tags, "game_winner")
              THEN << <<"sealed the victory">> >> ELSE <<>>
        d2 == IF InSeq(event.tags, "clutch") /\ event.quarter = 4
              THEN << <<"in a clutch fourth-quarter moment">> >>
              ELSE IF InSeq(event.tags, "clutch")
              THEN << <<"in a clutch moment">> >> ELSE <<>>
        d3 == IF InSeq(event.tags, "buzzer_beater")
              THEN << <<"right at the buzzer">> >> ELSE <<>>
        d4 == IF InSeq(event.tags, "highlight_reel")
                 /\ ~InSeq(event.tags, "game_winner")
              THEN << <<"a highlight-reel play">> >> ELSE <<>>
        d5 == IF breakdown.player_boost > 0
              THEN << <<"featuring your favorite player, ", event.player>> >>
              ELSE <<>>
        d6 == IF breakdown.team_boost > 0
              THEN << <<"by your favorite team, the ", event.team>> >>
              ELSE <<>>
        details == d1 \o d2 \o d3 \o d4 \o d5 \o d6
        detail_text == Join(", ", details)
        parts == IF details # <<>>
                 THEN <<sentence1,
                        <<Capitalize(Head(detail_text))>> \o Tail(detail_text)
                            \o <<".">> >>
                 ELSE <<sentence1>>
    IN Join(" ", parts)

\* enumerate(filtered, start=0)
BuildHighlights1FromZero(filtered) ==
    [i \in 1..Len(filtered) |->
        [event |-> filtered[i][1], rank |-> i - 1,
         score |-> filtered[i][2].total_score,
         explanation |-> generate_explanation(filtered[i][1], filtered[i][2])]]

\* the loop over enumerate(filtered, start=1)
BuildHighlights1(filtered) ==
    [i \in 1..Len(filtered) |->
        [event |-> filtered[i][1], rank |-> i,
         score |-> filtered[i][2].total_score,
         explanation |-> generate_explanation(filtered[i][1], filtered[i][2])]]

\* the caller's list sorted in place by the key
ArgumentsAfterSortInPlace1(evs, prefs0) ==
    LET scored == [i \in 1..Len(evs) |-> <<evs[i], score_event(evs[i], prefs0)>>]
        sorted_events == Sorted1(scored)
    IN [events |-> [i \in 1..Len(evs) |-> sorted_events[i][1]], pref |-> prefs0]

\* the caller's event list and preference object after select_highlights:
\* the function works on lists it builds itself (the comprehension, sorted(),
\* list(critical)), rebinds its local name prefs, and assigns to no element
\* of events and to no field of an event or of the preference
ArgumentsAfter1(evs, prefs0) == [events |-> evs, pref |-> prefs0]

select_highlights1(evs, prefs0, minc, maxc) ==
    IF evs = <<>> THEN <<>>
    ELSE LET prefs == IF prefs0 = <<>> THEN <<UserPreference(None, None)>>
                      ELSE prefs0
             scored_events ==
                 [i \in 1..Len(evs) |-> <<evs[i], score_event(evs[i], prefs)>>]
             filtered == rank_and_filter(scored_events, minc, maxc)
         IN BuildHighlights1(filtered)

(***************************************************************************)
(* track2-bmad: scoring                                                    *)
(***************************************************************************)
importance_map == << <<"critical", 100>>, <<"high", 75>>, <<"medium", 50>>, <<"low", 25>> >>

\* importance_map.get(event.importance, 0)
CalculateBaseScoreDefaultZero(event) == DictGet(importance_map, event.importance, 0)

calculate_base_score(event) == DictGet(importance_map, event.importance, 25)

calculate_player_boost(event, preference) ==
    IF preference = <<>> THEN 0
    ELSE IF preference[1].favorite_player = None THEN 0
    ELSE IF event.player = preference[1].favorite_player THEN 30 ELSE 0

calculate_team_boost(event, preference) ==
    IF preference = <<>> THEN 0
    ELSE IF preference[1].favorite_team = None THEN 0
    ELSE IF event.team = preference[1].favorite_team THEN 15 ELSE 0

tag_boost_map ==
    << <<"clutch", 20>>, <<"game_winner", 25>>, <<"buzzer_beater", 15>>,
       <<"highlight_reel", 15>>, <<"fourth_quarter", 10>> >>

calculate_context_boosts(event) == TagBoosts(event.tags, tag_boost_map, <<>>)

\* calculate_score adding a boost for every occurrence of a tag
CalculateScorePerOccurrence(event, preference) ==
    LET base == calculate_base_score(event)
        player == calculate_player_boost(event, preference)
        team == calculate_team_boost(event, preference)
        context == calculate_context_boosts(event)
        occurrences ==
            [i \in 1..Len(event.tags) |->
                <<event.tags[i], DictGet(tag_boost_map, event.tags[i], 0)>>]
        total == base + player + team + SumValues(occurrences)
    IN [base_score |-> base, player_boost |-> player, team_boost |-> team,
        context_boosts |-> context, total_score |-> total]

calculate_score(event, preference) ==
    LET base == calculate_base_score(event)
        player == calculate_player_boost(event, preference)
        team == calculate_team_boost(event, preference)
        context == calculate_context_boosts(event)
        total == base + player + team + SumValues(context)
    IN [base_score |-> base, player_boost |-> player, team_boost |-> team,
        context_boosts |-> context, total_score |-> total]

(***************************************************************************)
(* track2-bmad: ranking, selection, explanation                            *)
(***************************************************************************)
importance_rank == << <<"critical", 4>>, <<"high", 3>>, <<"medium", 2>>, <<"low", 1>> >>

\* the key with the quarter ascending
CreateSortKeyQuarterAscending(event, score) ==
    <<-score, event.quarter, -DictGet(importance_rank, event.importance, 0),
      event.id>>

_create_sort_key(event, score) ==
    <<-score, -event.quarter, -DictGet(importance_rank, event.importance, 0),
      event.id>>

sort_key2(item) == _create_sort_key(item[1], item[2].total_score)

\* s.sort(key=lambda x: _create_sort_key(x[0], x[1].total_score))
Sorted2(s) == SortKeyed([i \in 1..Len(s) |-> <<sort_key2(s[i]), s[i]>>])

\* the rule filling the quota by listing the favorite-player events again
FavoriteRuleRepeatsFavorite(scored_events, favorite_player) ==
    LET IsFav(item) == item[1].player = favorite_player
        IsNotFav(item) == item[1].player # favorite_player
        fav_events == SelectSeq(scored_events, IsFav)
        selection_size == Len(scored_events)
        required_fav_count == (selection_size + 1) \div 2
        current_fav_count == Len(SelectSeq(scored_events, IsFav))
        non_fav_in_selection == SelectSeq(scored_events, IsNotFav)
        all_fav_events == fav_events \o fav_events
        selected_fav == Take(all_fav_events, required_fav_count)
        remaining_slots == selection_size - Len(selected_fav)
        selected_non_fav == Take(non_fav_in_selection, remaining_slots)
        combined == selected_fav \o selected_non_fav
    IN IF Len(fav_events) < 3 THEN scored_events
       ELSE IF current_fav_count >= required_fav_count THEN scored_events
       ELSE Sorted2(combined)

\* the rule with remaining_slots = selection_size - required_fav_count
FavoriteRuleShortRefill(scored_events, favorite_player) ==
    LET IsFav(item) == item[1].player = favorite_player
        IsNotFav(item) == item[1].player # favorite_player
        fav_events == SelectSeq(scored_events, IsFav)
        selection_size == Len(scored_events)
        required_fav_count == (selection_size + 1) \div 2
        selected_fav == Take(fav_events, required_fav_count)
        remaining_slots == selection_size - required_fav_count
        selected_non_fav == Take(SelectSeq(scored_events, IsNotFav), remaining_slots)
    IN IF Len(fav_events) < 3 THEN scored_events
       ELSE IF Len(fav_events) >= required_fav_count THEN scored_events
       ELSE Sorted2(selected_fav \o selected_non_fav)

_apply_favorite_player_rule(scored_events, favorite_player) ==
    LET IsFav(item) == item[1].player = favorite_player
        IsNotFav(item) == item[1].player # favorite_player
        fav_events == SelectSeq(scored_events, IsFav)
        selection_size == Len(scored_events)
        required_fav_count == (selection_size + 1) \div 2
        current_fav_count == Len(SelectSeq(scored_events, IsFav))
        non_fav_in_selection == SelectSeq(scored_events, IsNotFav)
        all_fav_events == SelectSeq(scored_events, IsFav)
        selected_fav == Take(all_fav_events, required_fav_count)
        remaining_slots == selection_size - Len(selected_fav)
        selected_non_fav == Take(non_fav_in_selection, remaining_slots)
        combined == selected_fav \o selected_non_fav
    IN IF Len(fav_events) < 3 THEN scored_events
       ELSE IF current_fav_count >= required_fav_count THEN scored_events
       ELSE Sorted2(combined)

importance_phrases ==
    << <<"critical", "Critical game moment">>, <<"high", "High-impact play">>,
       <<"medium", "Notable play">>, <<"low", "Contributing play">> >>

tag_phrases ==
    << <<"clutch", "in a clutch situation">>,
       <<"game_winner", "as the game-winner">>,
       <<"buzzer_beater", "at the buzzer">>,
       <<"highlight_reel", "with highlight-reel quality">>,
       <<"fourth_quarter", "in the critical fourth quarter">> >>

\* for tag in breakdown.context_boosts: if tag in tag_phrases: append; break
RECURSIVE FirstTagPhrase(_)
FirstTagPhrase(boosts) ==
    IF boosts = <<>> THEN <<>>
    ELSE IF DictHas(tag_phrases, Head(boosts)[1])
    THEN << <<DictGet(tag_phrases, Head(boosts)[1], "")>> >>
    ELSE FirstTagPhrase(Tail(boosts))

\* _generate_explanation naming the favorite player for every preference object
GenerateExplanationAnyPreference(event, breakdown, preference) ==
    LET first == <<DictGet(importance_phrases, event.importance, "Notable play")>>
        personal ==
            IF preference # <<>>
            THEN << <<"featuring your favorite player ", event.player>> >>
            ELSE IF breakdown.team_boost > 0
            THEN << <<"by your favorite team ", event.team>> >>
            ELSE <<>>
        context == IF breakdown.context_boosts # <<>>
                   THEN FirstTagPhrase(breakdown.context_boosts) ELSE <<>>
        parts == <<first>> \o personal \o context
    IN IF Len(parts) = 1 THEN parts[1] \o <<".">>
       ELSE parts[1] \o <<" ">> \o Join(" ", Tail(parts)) \o <<".">>

_generate_explanation(event, breakdown, preference) ==
    LET first == <<DictGet(importance_phrases, event.importance, "Notable play")>>
        personal ==
            IF breakdown.player_boost > 0
            THEN << <<"featuring your favorite player ", event.player>> >>
            ELSE IF breakdown.team_boost > 0
            THEN << <<"by your favorite team ", event.team>> >>
            ELSE <<>>
        context == IF breakdown.context_boosts # <<>>
                   THEN FirstTagPhrase(breakdown.context_boosts) ELSE <<>>
        parts == <<first>> \o personal \o context
    IN IF Len(parts) = 1 THEN parts[1] \o <<".">>
       ELSE parts[1] \o <<" ">> \o Join(" ", Tail(parts)) \o <<".">>

\* steps 2 to 5 with the slice non_critical_events[:max_count - 1]
SelectStepsShortSlice(scored_events0, preference, minc, maxc) ==
    LET scored_events == Sorted2(scored_events0)
        critical_events == SelectSeq(scored_events, IsCritical)
        non_critical_events == SelectSeq(scored_events, IsNotCritical)
        num_non_critical == Len(non_critical_events)
        selected_non_critical ==
            IF num_non_critical <= minc THEN non_critical_events
            ELSE IF num_non_critical <= maxc THEN non_critical_events
            ELSE Take(non_critical_events, maxc - 1)
    IN critical_events \o selected_non_critical

\* steps 2 to 5 with the total, not the non-critical part, capped at max_count
SelectStepsTotalCap(scored_events0, preference, minc, maxc) ==
    LET scored_events == Sorted2(scored_events0)
        critical_events == SelectSeq(scored_events, IsCritical)
        non_critical_events == SelectSeq(scored_events, IsNotCritical)
    IN critical_events \o Take(non_critical_events, maxc - Len(critical_events))

\* steps 2 to 5 with the slice non_critical_events[:min_count]
SelectStepsCutToMin(scored_events0, preference, minc, maxc) ==
    LET scored_events == Sorted2(scored_events0)
        critical_events == SelectSeq(scored_events, IsCritical)
        non_critical_events == SelectSeq(scored_events, IsNotCritical)
        num_non_critical == Len(non_critical_events)
        selected_non_critical ==
            IF num_non_critical <= minc THEN non_critical_events
            ELSE IF num_non_critical <= maxc THEN non_critical_events
            ELSE Take(non_critical_events, minc)
        selected == critical_events \o selected_non_critical
    IN IF preference # <<>> /\ Truthy(preference[1].favorite_player)
       THEN _apply_favorite_player_rule(selected, preference[1].favorite_player)
       ELSE selected

\* steps 2 to 5 of select_highlights
SelectSteps(scored_events0, preference, minc, maxc) ==
    LET scored_events == Sorted2(scored_events0)
        critical_events == SelectSeq(scored_events, IsCritical)
        non_critical_events == SelectSeq(scored_events, IsNotCritical)
        num_non_critical == Len(non_critical_events)
        selected_non_critical ==
            IF num_non_critical <= minc THEN non_critical_events
            ELSE IF num_non_critical <= maxc THEN non_critical_events
            ELSE Take(non_critical_events, maxc)
        selected == critical_events \o selected_non_critical
    IN IF preference # <<>> /\ Truthy(preference[1].favorite_player)
       THEN _apply_favorite_player_rule(selected, preference[1].favorite_player)
       ELSE selected

\* step 6 with the base score as the score of the highlight
BuildHighlights2BaseScore(selected, preference) ==
    [i \in 1..Len(selected) |->
        [event |-> selected[i][1], rank |-> i,
         score |-> selected[i][2].base_score,
         explanation |->
             _generate_explanation(selected[i][1], selected[i][2], preference)]]

\* step 6 of select_highlights
BuildHighlights2(selected, preference) ==
    [i \in 1..Len(selected) |->
        [event |-> selected[i][1], rank |-> i,
         score |-> selected[i][2].total_score,
         explanation |->
             _generate_explanation(selected[i][1], selected[i][2], preference)]]

\* the caller's event list and preference object after select_highlights:
\* scored_events.sort and combined.sort work on lists the function built, and
\* nothing is assigned to an element of events or to a field
ArgumentsAfter2(evs, preference) == [events |-> evs, pref |-> preference]

\* select_highlights rejecting an empty list with ValueError
SelectHighlights2RejectEmpty(evs, preference, minc, maxc) ==
    IF evs = <<>> THEN <<"ValueError">>
    ELSE LET scored_events ==
                 [i \in 1..Len(evs) |-> <<evs[i], calculate_score(evs[i], preference)>>]
         IN BuildHighlights2(SelectSteps(scored_events, preference, minc, maxc),
                             preference)

select_highlights2(evs, preference, minc, maxc) ==
    IF evs = <<>> THEN <<>>
    ELSE LET scored_events ==
                 [i \in 1..Len(evs) |-> <<evs[i], calculate_score(evs[i], preference)>>]
         IN BuildHighlights2(SelectSteps(scored_events, preference, minc, maxc),
                             preference)

(***************************************************************************)
(* The caller.  A loader appends the records of the game log to the event  *)
(* list, either arbitrary plays (a short list, selected with explicit      *)
(* min_count and max_count) or key plays (a longer list, selected with the *)
(* default counts); then one of the two implementations is run on it.      *)
(***************************************************************************)
MIN_HIGHLIGHTS == 5
MAX_HIGHLIGHTS == 8

Init ==
    /\ events = <<>>
    /\ pref = <<>>
    /\ min_count = MIN_HIGHLIGHTS
    /\ max_count = MAX_HIGHLIGHTS
    /\ pc \in {"load", "load_plays"}
    /\ hl1 = <<>>
    /\ hl2 = <<>>
    /\ ev = <<>>
    /\ bd1 = <<>>
    /\ bd2 = <<>>
    /\ ex1 = <<>>
    /\ ex2 = <<>>
    /\ given = <<>>
    /\ wire = <<>>
    /\ back = <<>>
    /\ sel2 = <<>>

NextRecord(ty, p, imp) ==
    LET slot == GameLog[Len(events) + 1]
    IN GameEvent(slot.id, ty, slot.quarter, p, Roster(p), imp, slot.tags)

\* the loader appends the next record, a play of any importance
AddEvent ==
    /\ pc = "load"
    /\ Len(events) < MaxEvents
    /\ Len(events) < Len(GameLog)
    /\ \E ty \in Types, p \in Players, imp \in Importances :
          events' = Append(events, NextRecord(ty, p, imp))
    /\ UNCHANGED <<pref, min_count, max_count, pc, hl1, hl2, ev, bd1, bd2,
                   ex1, ex2, given, wire, back, sel2>>

\* the loader appends the next record, a key play
AddPlay ==
    /\ pc = "load_plays"
    /\ Len(events) < MaxPlays
    /\ Len(events) < Len(GameLog)
    /\ \E ty \in Types, p \in Players, imp \in KeyImportances :
          events' = Append(events, NextRecord(ty, p, imp))
    /\ UNCHANGED <<pref, min_count, max_count, pc, hl1, hl2, ev, bd1, bd2,
                   ex1, ex2, given, wire, back, sel2>>

\* track1-speckit select_highlights(events, prefs, min_count, max_count)
Select1 ==
    /\ pc = "load"
    /\ \E pr \in Preferences, mn \in 0..MaxCount, mx \in 0..MaxCount :
          /\ given' = [events |-> events, pref |-> pr]
          /\ events' = ArgumentsAfter1(events, pr).events
          /\ pref' = ArgumentsAfter1(events, pr).pref
          /\ min_count' = mn
          /\ max_count' = mx
          /\ hl1' = select_highlights1(events, pr, mn, mx)
    /\ pc' = "track1"
    /\ UNCHANGED <<hl2, ev, bd1, bd2, ex1, ex2, wire, back, sel2>>

\* track2-bmad select_highlights(events, preference, min_count, max_count)
Select2 ==
    /\ pc = "load"
    /\ \E pr \in Preferences, mn \in 0..MaxCount, mx \in 0..MaxCount :
          /\ given' = [events |-> events, pref |-> pr]
          /\ events' = ArgumentsAfter2(events, pr).events
          /\ pref' = ArgumentsAfter2(events, pr).pref
          /\ min_count' = mn
          /\ max_count' = mx
          /\ hl2' = select_highlights2(events, pr, mn, mx)
    /\ pc' = "track2"
    /\ UNCHANGED <<hl1, ev, bd1, bd2, ex1, ex2, wire, back, sel2>>

\* track1-speckit select_highlights(events, prefs), default counts
SelectDefault1 ==
    /\ pc = "load_plays"
    /\ \E pr \in Preferences :
          /\ given' = [events |-> events, pref |-> pr]
          /\ events' = ArgumentsAfter1(events, pr).events
          /\ pref' = ArgumentsAfter1(events, pr).pref
          /\ hl1' = select_highlights1(events, pr, MIN_HIGHLIGHTS, MAX_HIGHLIGHTS)
    /\ pc' = "track1"
    /\ UNCHANGED <<min_count, max_count, hl2, ev, bd1, bd2, ex1, ex2, wire,
                   back, sel2>>

\* track2-bmad select_highlights(events, preference), default counts
SelectDefault2 ==
    /\ pc = "load_plays"
    /\ \E pr \in Preferences :
          /\ given' = [events |-> events, pref |-> pr]
          /\ events' = ArgumentsAfter2(events, pr).events
          /\ pref' = ArgumentsAfter2(events, pr).pref
          /\ hl2' = select_highlights2(events, pr, MIN_HIGHLIGHTS, MAX_HIGHLIGHTS)
    /\ pc' = "track2"
    /\ UNCHANGED <<min_count, max_count, hl1, ev, bd1, bd2, ex1, ex2, wire,
                   back, sel2>>

Next ==
    \/ AddEvent
    \/ AddPlay
    \/ Select1
    \/ Select2
    \/ SelectDefault1
    \/ SelectDefault2

Spec == Init /\ [][Next]_vars

(***************************************************************************)
(* The scoring and explanation functions on their own: one event and one   *)
(* preference are drawn; each implementation scores the event and then     *)
(* explains it from the breakdown it returned.                             *)
(***************************************************************************)
ScoreImportances == {"critical", "high", "medium", "low", "legendary"}
ScoreQuarters == {3, 4, 5}
ScorePlayers == {"LeBron", "lebron", ""}
ScoreTeams == {"Lakers", "Warriors"}
ScoreTags ==
    {"clutch", "game_winner", "buzzer_beater", "highlight_reel",
     "fourth_quarter", "rebound"}

TagListsOfLen(n) == [1..n -> ScoreTags]
ScoreTagLists == UNION {TagListsOfLen(n) : n \in 0..MaxTags}

ScorePreferences ==
    {<<>>} \cup {<<UserPreference(fp, ft)>> :
                    fp \in {None, "LeBron", ""}, ft \in {None, "Lakers"}}

InitScore ==
    /\ events = <<>>
    /\ min_count = MIN_HIGHLIGHTS
    /\ max_count = MAX_HIGHLIGHTS
    /\ pc = "score"
    /\ hl1 = <<>>
    /\ hl2 = <<>>
    /\ pref \in ScorePreferences
    /\ \E imp \in ScoreImportances, q \in ScoreQuarters, p \in ScorePlayers,
          t \in ScoreTeams, tags \in ScoreTagLists :
          ev = <<GameEvent(<<1>>, "three_pointer", q, p, t, imp, tags)>>
    /\ bd1 = <<>>
    /\ bd2 = <<>>
    /\ ex1 = <<>>
    /\ ex2 = <<>>
    /\ given = <<>>
    /\ wire = <<>>
    /\ back = <<>>
    /\ sel2 = <<>>

\* track1-speckit score_event(event, prefs)
ScoreEvent1 ==
    /\ pc = "score"
    /\ bd1 = <<>>
    /\ bd1' = <<score_event(ev[1], pref)>>
    /\ UNCHANGED <<events, pref, min_count, max_count, pc, hl1, hl2, ev, bd2,
                   ex1, ex2, given, wire, back, sel2>>

\* track2-bmad calculate_score(event, preference)
CalculateScore2 ==
    /\ pc = "score"
    /\ bd2 = <<>>
    /\ bd2' = <<calculate_score(ev[1], pref)>>
    /\ UNCHANGED <<events, pref, min_count, max_count, pc, hl1, hl2, ev, bd1,
                   ex1, ex2, given, wire, back, sel2>>

\* track1-speckit generate_explanation(event, breakdown)
Explain1 ==
    /\ pc = "score"
    /\ bd1 # <<>>
    /\ ex1 = <<>>
    /\ ex1' = <<generate_explanation(ev[1], bd1[1])>>
    /\ UNCHANGED <<events, pref, min_count, max_count, pc, hl1, hl2, ev, bd1,
                   bd2, ex2, given, wire, back, sel2>>

\* track2-bmad _generate_explanation(event, breakdown, preference)
Explain2 ==
    /\ pc = "score"
    /\ bd2 # <<>>
    /\ ex2 = <<>>
    /\ ex2' = <<_generate_explanation(ev[1], bd2[1], pref)>>
    /\ UNCHANGED <<events, pref, min_count, max_count, pc, hl1, hl2, ev, bd1,
                   bd2, ex1, given, wire, back, sel2>>

NextScore ==
    \/ ScoreEvent1
    \/ CalculateScore2
    \/ Explain1
    \/ Explain2

SpecScore == InitScore /\ [][NextScore]_vars

(***************************************************************************)
(* track1-speckit GameEvent serialization on its own: one event is drawn,  *)
(* serialized with to_dict, and the dict is read back with from_dict.      *)
(***************************************************************************)
\* data[key]
Subscript(data, key) == data[CHOOSE j \in 1..Len(data) : data[j][1] = key][2]

to_dict(e) ==
    << <<"id", e.id>>, <<"type", e.type>>, <<"timestamp", e.timestamp>>,
       <<"quarter", e.quarter>>, <<"player", e.player>>, <<"team", e.team>>,
       <<"description", e.description>>, <<"importance", e.importance>>,
       <<"tags", e.tags>> >>

\* from_dict with the quarter read from a key the dict does not have
FromDictQuarterDefault(data) ==
    LET importance0 == DictGet(data, "importance", "low")
        importance == IF DictHas(IMPORTANCE_RANK, importance0)
                      THEN importance0 ELSE "low"
    IN [id |-> Subscript(data, "id"),
        type |-> Subscript(data, "type"),
        timestamp |-> DictGet(data, "timestamp", ""),
        quarter |-> DictGet(data, "period", 1),
        player |-> DictGet(data, "player", "Unknown"),
        team |-> DictGet(data, "team", "Unknown"),
        description |-> DictGet(data, "description", ""),
        importance |-> importance,
        tags |-> DictGet(data, "tags", <<>>)]

from_dict(data) ==
    LET importance0 == DictGet(data, "importance", "low")
        importance == IF DictHas(IMPORTANCE_RANK, importance0)
                      THEN importance0 ELSE "low"
    IN [id |-> Subscript(data, "id"),
        type |-> Subscript(data, "type"),
        timestamp |-> DictGet(data, "timestamp", ""),
        quarter |-> DictGet(data, "quarter", 1),
        player |-> DictGet(data, "player", "Unknown"),
        team |-> DictGet(data, "team", "Unknown"),
        description |-> DictGet(data, "description", ""),
        importance |-> importance,
        tags |-> DictGet(data, "tags", <<>>)]

InitCodec ==
    /\ events = <<>>
    /\ pref = <<>>
    /\ min_count = MIN_HIGHLIGHTS
    /\ max_count = MAX_HIGHLIGHTS
    /\ pc = "codec"
    /\ hl1 = <<>>
    /\ hl2 = <<>>
    /\ \E imp \in ScoreImportances, q \in ScoreQuarters, p \in ScorePlayers,
          t \in ScoreTeams, tags \in ScoreTagLists :
          ev = <<GameEvent(<<1>>, "three_pointer", q, p, t, imp, tags)>>
    /\ bd1 = <<>>
    /\ bd2 = <<>>
    /\ ex1 = <<>>
    /\ ex2 = <<>>
    /\ given = <<>>
    /\ wire = <<>>
    /\ back = <<>>
    /\ sel2 = <<>>

\* track1-speckit GameEvent.to_dict()
ToDict ==
    /\ pc = "codec"
    /\ wire = <<>>
    /\ wire' = <<to_dict(ev[1])>>
    /\ UNCHANGED <<events, pref, min_count, max_count, pc, hl1, hl2, ev, bd1,
                   bd2, ex1, ex2, given, back, sel2>>

\* track1-speckit GameEvent.from_dict(data)
FromDict ==
    /\ pc = "codec"
    /\ wire # <<>>
    /\ back = <<>>
    /\ back' = <<from_dict(wire[1])>>
    /\ UNCHANGED <<events, pref, min_count, max_count, pc, hl1, hl2, ev, bd1,
                   bd2, ex1, ex2, given, wire, sel2>>

NextCodec == ToDict \/ FromDict

SpecCodec == InitCodec /\ [][NextCodec]_vars

(***************************************************************************)
(* The caller's collection in arbitrary order: each record of the game log *)
(* is put at any position of the list before select_highlights is called.  *)
(***************************************************************************)
InsertAt(s, k, x) == SubSeq(s, 1, k - 1) \o <<x>> \o SubSeq(s, k, Len(s))

\* the next record, a key play, is put at position k of the list
AddPlayAt ==
    /\ pc = "load"
    /\ Len(events) < MaxShuffled
    /\ Len(events) < Len(GameLog)
    /\ \E ty \in Types, p \in Players, imp \in KeyImportances,
          k \in 1..(Len(events) + 1) :
          events' = InsertAt(events, k, NextRecord(ty, p, imp))
    /\ UNCHANGED <<pref, min_count, max_count, pc, hl1, hl2, ev, bd1, bd2,
                   ex1, ex2, given, wire, back, sel2>>

InitOrder ==
    /\ events = <<>>
    /\ pref = <<>>
    /\ min_count = MIN_HIGHLIGHTS
    /\ max_count = MAX_HIGHLIGHTS
    /\ pc = "load"
    /\ hl1 = <<>>
    /\ hl2 = <<>>
    /\ ev = <<>>
    /\ bd1 = <<>>
    /\ bd2 = <<>>
    /\ ex1 = <<>>
    /\ ex2 = <<>>
    /\ given = <<>>
    /\ wire = <<>>
    /\ back = <<>>
    /\ sel2 = <<>>

NextOrder == AddPlayAt \/ Select1 \/ Select2

SpecOrder == InitOrder /\ [][NextOrder]_vars

(***************************************************************************)
(* Events built directly, not through from_dict: the importance of a       *)
(* record may be a string outside the table.                               *)
(***************************************************************************)
AnyImportances == {"critical", "low", "legendary"}

\* the loader appends the next record, of any importance string
AddAnyEvent ==
    /\ pc = "load"
    /\ Len(events) < MaxRated
    /\ Len(events) < Len(GameLog)
    /\ \E ty \in Types, p \in Players, imp \in AnyImportances :
          events' = Append(events, NextRecord(ty, p, imp))
    /\ UNCHANGED <<pref, min_count, max_count, pc, hl1, hl2, ev, bd1, bd2, ex1,
                   ex2, given, wire, back, sel2>>

InitAny ==
    /\ events = <<>>
    /\ pref = <<>>
    /\ min_count = MIN_HIGHLIGHTS
    /\ max_count = MAX_HIGHLIGHTS
    /\ pc = "load"
    /\ hl1 = <<>>
    /\ hl2 = <<>>
    /\ ev = <<>>
    /\ bd1 = <<>>
    /\ bd2 = <<>>
    /\ ex1 = <<>>
    /\ ex2 = <<>>
    /\ given = <<>>
    /\ wire = <<>>
    /\ back = <<>>
    /\ sel2 = <<>>

NextAny == AddAnyEvent \/ Select1 \/ Select2

SpecAny == InitAny /\ [][NextAny]_vars

(***************************************************************************)
(* The favorite-player rule of track2-bmad on its own: it is handed the    *)
(* scored key plays in list order, for one favorite player.                *)
(***************************************************************************)
\* step 1 of select_highlights: the list of (event, breakdown) pairs
ScoredList2(evs, preference) ==
    [i \in 1..Len(evs) |-> <<evs[i], calculate_score(evs[i], preference)>>]

\* track2-bmad _apply_favorite_player_rule(scored_events, favorite_player)
ApplyRule2 ==
    /\ pc = "load_plays"
    /\ \E fp \in Players :
          /\ pref' = <<UserPreference(fp, None)>>
          /\ sel2' = _apply_favorite_player_rule(
                        ScoredList2(events, <<UserPreference(fp, None)>>), fp)
    /\ pc' = "rule"
    /\ UNCHANGED <<events, min_count, max_count, hl1, hl2, ev, bd1, bd2, ex1,
                   ex2, given, wire, back>>

InitRule ==
    /\ events = <<>>
    /\ pref = <<>>
    /\ min_count = MIN_HIGHLIGHTS
    /\ max_count = MAX_HIGHLIGHTS
    /\ pc = "load_plays"
    /\ hl1 = <<>>
    /\ hl2 = <<>>
    /\ ev = <<>>
    /\ bd1 = <<>>
    /\ bd2 = <<>>
    /\ ex1 = <<>>
    /\ ex2 = <<>>
    /\ given = <<>>
    /\ wire = <<>>
    /\ back = <<>>
    /\ sel2 = <<>>

NextRule == AddPlay \/ ApplyRule2

SpecRule == InitRule /\ [][NextRule]_vars

(***************************************************************************)
(* The scoring functions on two events that differ in the tag list alone:  *)
(* the two lists name the same tags, in any order and with any repetition. *)
(***************************************************************************)
TagsOf(tags) == {tags[i] : i \in 1..Len(tags)}

InitTags ==
    /\ events = <<>>
    /\ min_count = MIN_HIGHLIGHTS
    /\ max_count = MAX_HIGHLIGHTS
    /\ pc = "tags"
    /\ hl1 = <<>>
    /\ hl2 = <<>>
    /\ pref \in ScorePreferences
    /\ \E imp \in {"critical", "legendary"}, q \in ScoreQuarters,
          tags1 \in ScoreTagLists, tags2 \in ScoreTagLists :
          /\ TagsOf(tags1) = TagsOf(tags2)
          /\ ev = <<GameEvent(<<1>>, "three_pointer", q, "LeBron", "Lakers",
                              imp, tags1),
                    GameEvent(<<1>>, "three_pointer", q, "LeBron", "Lakers",
                              imp, tags2)>>
    /\ bd1 = <<>>
    /\ bd2 = <<>>
    /\ ex1 = <<>>
    /\ ex2 = <<>>
    /\ given = <<>>
    /\ wire = <<>>
    /\ back = <<>>
    /\ sel2 = <<>>

\* track1-speckit score_event on each of the two events
ScorePair1 ==
    /\ pc = "tags"
    /\ bd1 = <<>>
    /\ bd1' = <<score_event(ev[1], pref), score_event(ev[2], pref)>>
    /\ UNCHANGED <<events, pref, min_count, max_count, pc, hl1, hl2, ev, bd2,
                   ex1, ex2, given, wire, back, sel2>>

\* track2-bmad calculate_score on each of the two events
ScorePair2 ==
    /\ pc = "tags"
    /\ bd2 = <<>>
    /\ bd2' = <<calculate_score(ev[1], pref), calculate_score(ev[2], pref)>>
    /\ UNCHANGED <<events, pref, min_count, max_count, pc, hl1, hl2, ev, bd1,
                   ex1, ex2, given, wire, back, sel2>>

NextTags == ScorePair1 \/ ScorePair2

SpecTags == InitTags /\ [][NextTags]_vars

(***************************************************************************)
(* Properties                                                              *)
(***************************************************************************)
Ids(hl) == {hl[i].event.id : i \in 1..Len(hl)}

CriticalInput == {i \in 1..Len(events) : events[i].importance = "critical"}
NonCriticalInput == {i \in 1..Len(events) : events[i].importance # "critical"}
CriticalInputIds == {events[i].id : i \in CriticalInput}

NonCriticalIn(hl) == {i \in 1..Len(hl) : hl[i].event.importance # "critical"}

Min(a, b) == IF a <= b THEN a ELSE b
Max(a, b) == IF a >= b THEN a ELSE b

\* the importance rank of the comparator, as the specification gives it
RankOf(importance) ==
    CASE importance = "critical" -> 4
      [] importance = "high" -> 3
      [] importance = "medium" -> 2
      [] importance = "low" -> 1
      [] OTHER -> 0

\* highlight a may stand directly before highlight b
InOrder(a, b) ==
    /\ a.score >= b.score
    /\ a.score = b.score => a.event.quarter >= b.event.quarter
    /\ (a.score = b.score /\ a.event.quarter = b.event.quarter)
          => RankOf(a.event.importance) >= RankOf(b.event.importance)
    /\ (/\ a.score = b.score
        /\ a.event.quarter = b.event.quarter
        /\ RankOf(a.event.importance) = RankOf(b.event.importance))
          => (a.event.id = b.event.id \/ StrLess(a.event.id, b.event.id))

SortedOutput(hl) == \A i \in 1..(Len(hl) - 1) : InOrder(hl[i], hl[i + 1])

HasFavorite == pref # <<>> /\ pref[1].favorite_player \notin {None, ""}

FavIn(hl) == {i \in 1..Len(hl) : hl[i].event.player = pref[1].favorite_player}
FavInput == {i \in 1..Len(events) : events[i].player = pref[1].favorite_player}

Half(n) == (n + 1) \div 2

\* C1: track1-speckit select_highlights returns every critical input event,
\* for every non-empty input and every max_count >= 1, also when there are
\* more critical events than max_count.
C1_CriticalAlwaysIncluded1 ==
    (pc = "track1" /\ events # <<>> /\ max_count >= 1)
        => CriticalInputIds \subseteq Ids(hl1)

\* C2: track2-bmad select_highlights returns every critical input event, for
\* every preference and every min_count and max_count; the favorite-player
\* rule evicts none.
C2_CriticalAlwaysIncluded2 ==
    (pc = "track2" /\ events # <<>>) => CriticalInputIds \subseteq Ids(hl2)

\* the favorite-player rule rebuilt a selection that holds a critical event
C2_Witness ==
    /\ pc = "track2"
    /\ HasFavorite
    /\ Cardinality(FavIn(hl2)) >= 3
    /\ Cardinality(FavIn(hl2)) < Half(Len(hl2))
    /\ \E i \in 1..Len(hl2) :
          /\ hl2[i].event.importance = "critical"
          /\ hl2[i].event.player # pref[1].favorite_player

\* C3: the list track2-bmad select_highlights returns is sorted by the
\* comparator: score descending, then quarter descending, then importance
\* rank descending, then id ascending.
C3_OutputSorted2 == pc = "track2" => SortedOutput(hl2)

\* C4: the list track1-speckit select_highlights returns is sorted by the
\* key (score descending, quarter descending, importance rank descending,
\* id ascending).
C4_OutputSorted1 == pc = "track1" => SortedOutput(hl1)

\* a critical event is ranked behind a non-critical one with a better key
C4_Witness ==
    /\ pc = "track1"
    /\ Len(hl1) >= 2
    /\ hl1[1].event.importance # "critical"
    /\ hl1[2].event.importance = "critical"

Quota(hl) ==
    (HasFavorite /\ Cardinality(FavInput) >= 3)
        => \/ Cardinality(FavIn(hl)) >= Half(Len(hl))
           \/ Cardinality(FavInput) < Half(Len(hl))

\* C5: in both implementations, when a favorite player is given and at
\* least 3 input events feature that player, at least ceil(N/2) of the N
\* returned highlights feature the player, unless the input has fewer than
\* ceil(N/2) events of the player.
C5_FavoriteQuota ==
    /\ pc = "track1" => Quota(hl1)
    /\ pc = "track2" => Quota(hl2)

NonCriticalKept ==
    IF Cardinality(NonCriticalInput) <= Max(min_count, max_count)
    THEN Cardinality(NonCriticalInput) ELSE max_count

C7_SizeIsMaxOriginal ==
    (/\ pc = "track2"
     /\ min_count <= max_count
     /\ Len(events) > max_count
     /\ Cardinality(CriticalInput) < min_count)
        => Len(hl2) = max_count

\* C7: with min_count <= max_count, more than max_count input events and no
\* critical one among them, track2-bmad returns exactly max_count highlights.
C7_SizeIsMax ==
    (/\ pc = "track2"
     /\ min_count <= max_count
     /\ Len(events) > max_count
     /\ Cardinality(CriticalInput) = 0)
        => Len(hl2) = max_count

\* a list without critical events was cut down to max_count
C7_Witness ==
    /\ pc = "track2"
    /\ min_count <= max_count
    /\ max_count >= 1
    /\ Len(events) > max_count
    /\ Cardinality(CriticalInput) = 0
    /\ Len(hl2) = max_count

Ranked(hl) == \A i \in 1..Len(hl) : hl[i].rank = i

\* C8: in both implementations the i-th returned highlight has rank i, so
\* the ranks are exactly 1..N without gaps or repeats.
C8_RanksSequential ==
    /\ pc = "track1" => Ranked(hl1)
    /\ pc = "track2" => Ranked(hl2)

\* a run that returned at least three ranked highlights
C8_Witness ==
    \/ pc = "track1" /\ Len(hl1) >= 3 /\ hl1[3].rank = 3
    \/ pc = "track2" /\ Len(hl2) >= 3 /\ hl2[3].rank = 3

\* the events of the list in the order of the game log
InLogOrder(evs) ==
    [i \in 1..Len(evs) |->
        evs[CHOOSE j \in 1..Len(evs) : evs[j].id = GameLog[i].id]]

\* C9: for events with pairwise distinct ids, select_highlights of either
\* implementation returns the same ordered output (ids, ranks, scores and
\* explanations) for every order of the input list: the output for the list
\* in any order is the output for the list in game-log order.
C9_OrderIndependent ==
    /\ pc = "track1"
         => hl1 = select_highlights1(InLogOrder(events), pref, min_count, max_count)
    /\ pc = "track2"
         => hl2 = select_highlights2(InLogOrder(events), pref, min_count, max_count)

\* a list that is not in game-log order, holding two events that differ in
\* the id alone, was selected from
C9_Witness ==
    /\ pc \in {"track1", "track2"}
    /\ events # InLogOrder(events)
    /\ Len(hl1) + Len(hl2) >= 2
    /\ \E i, j \in 1..Len(events) :
          /\ i < j
          /\ events[i].id # events[j].id
          /\ [events[i] EXCEPT !.id = <<>>] = [events[j] EXCEPT !.id = <<>>]

TotalIsSum(bd) ==
    bd.total_score
        = bd.base_score + bd.player_boost + bd.team_boost
            + SumValues(bd.context_boosts)

\* C10: the breakdown returned by score_event and by calculate_score has
\* total_score = base_score + player_boost + team_boost + the sum of the
\* context_boosts values.
C10_TotalIsSum ==
    /\ bd1 # <<>> => TotalIsSum(bd1[1])
    /\ bd2 # <<>> => TotalIsSum(bd2[1])

\* both implementations scored an event with every kind of boost
C10_Witness ==
    /\ bd1 # <<>>
    /\ bd2 # <<>>
    /\ bd1[1].player_boost > 0
    /\ bd1[1].team_boost > 0
    /\ Len(bd1[1].context_boosts) >= 2
    /\ Len(bd2[1].context_boosts) >= 2

HasEntry(ctx, key, value) == \E k \in 1..Len(ctx) : ctx[k] = <<key, value>>
HasKey(ctx, key) == \E k \in 1..Len(ctx) : ctx[k][1] = key

\* C11: the context_boosts of track1-speckit score_event hold the entry
\* "fourth_quarter" with value 10 exactly when event.quarter is 4, whatever the
\* tags: for quarter 3 and for quarter 5 the entry is absent, also when the
\* tag list names "fourth_quarter".
C11_FourthQuarterIffQuarter4 ==
    bd1 # <<>>
        => /\ HasKey(bd1[1].context_boosts, "fourth_quarter") <=> ev[1].quarter = 4
           /\ ev[1].quarter = 4
                => HasEntry(bd1[1].context_boosts, "fourth_quarter", 10)

\* an overtime event tagged "fourth_quarter" was scored without the entry
C11_Witness ==
    /\ bd1 # <<>>
    /\ ev[1].quarter = 5
    /\ InSeq(ev[1].tags, "fourth_quarter")
    /\ ~HasKey(bd1[1].context_boosts, "fourth_quarter")

\* C12: the context_boosts of track2-bmad calculate_score hold the entry
\* "fourth_quarter" with value 10 when event.quarter is 4, and no entry
\* "fourth_quarter" when the quarter is 1, 2, 3 or above 4.
C12_FourthQuarter2 ==
    bd2 # <<>>
        => /\ ev[1].quarter = 4
                => HasEntry(bd2[1].context_boosts, "fourth_quarter", 10)
           /\ ev[1].quarter # 4
                => ~HasKey(bd2[1].context_boosts, "fourth_quarter")

\* the boost the specification gives for a tag, 0 for a tag it does not list
RecognisedBoost(tag) ==
    CASE tag = "clutch" -> 20
      [] tag = "game_winner" -> 25
      [] tag = "buzzer_beater" -> 20
      [] tag = "highlight_reel" -> 15
      [] OTHER -> 0

BaseOf(importance) ==
    CASE importance = "critical" -> 100
      [] importance = "high" -> 75
      [] importance = "medium" -> 50
      [] importance = "low" -> 25
      [] OTHER -> 25

\* C14: in both implementations base_score is 100, 75, 50, 25 for the
\* importance critical, high, medium, low, and 25 for every other importance.
C14_BaseScore ==
    /\ bd1 # <<>> => bd1[1].base_score = BaseOf(ev[1].importance)
    /\ bd2 # <<>> => bd2[1].base_score = BaseOf(ev[1].importance)

\* both implementations scored an event of an importance outside the table
C14_Witness ==
    /\ bd1 # <<>>
    /\ bd2 # <<>>
    /\ ev[1].importance = "legendary"
    /\ bd1[1].base_score = 25
    /\ bd2[1].base_score = 25

ExpectedPlayerBoost ==
    IF /\ pref # <<>>
       /\ pref[1].favorite_player # None
       /\ ev[1].player = pref[1].favorite_player
    THEN 30 ELSE 0

ExpectedTeamBoost ==
    IF /\ pref # <<>>
       /\ pref[1].favorite_team # None
       /\ ev[1].team = pref[1].favorite_team
    THEN 15 ELSE 0

\* C15: in both implementations player_boost is 30 exactly when the
\* preference has a favorite player and it is the same string as
\* event.player, and 0 otherwise; team_boost is 15 exactly when the preference
\* has a favorite team and it is the same string as event.team, and 0
\* otherwise; without a preference, or with absent fields, both are 0.
C15_FavoriteBoosts ==
    /\ bd1 # <<>>
         => /\ bd1[1].player_boost = ExpectedPlayerBoost
            /\ bd1[1].team_boost = ExpectedTeamBoost
    /\ bd2 # <<>>
         => /\ bd2[1].player_boost = ExpectedPlayerBoost
            /\ bd2[1].team_boost = ExpectedTeamBoost

NoPreference == <<UserPreference(None, None)>>

\* C16: in both implementations select_highlights with the preference None
\* returns the same ordered highlights (events, ranks, scores, explanations)
\* as select_highlights with a UserPreference whose two fields are absent, for
\* every event list, min_count and max_count.
C16_NoneIsEmptyPreference ==
    /\ (pc = "track1" /\ pref = <<>>)
         => hl1 = select_highlights1(events, NoPreference, min_count, max_count)
    /\ (pc = "track1" /\ pref = NoPreference)
         => hl1 = select_highlights1(events, <<>>, min_count, max_count)
    /\ (pc = "track2" /\ pref = <<>>)
         => hl2 = select_highlights2(events, NoPreference, min_count, max_count)
    /\ (pc = "track2" /\ pref = NoPreference)
         => hl2 = select_highlights2(events, <<>>, min_count, max_count)

\* track2-bmad returned two or more highlights for a UserPreference with
\* both fields absent
C16_Witness ==
    /\ pc = "track2"
    /\ pref = NoPreference
    /\ Len(hl2) >= 2

\* C17: in both implementations select_highlights of the empty event list
\* returns the empty list, for every preference, min_count and max_count.
C17_EmptyInput ==
    /\ (pc = "track1" /\ events = <<>>) => hl1 = <<>>
    /\ (pc = "track2" /\ events = <<>>) => hl2 = <<>>

\* track2-bmad was run on the empty list with a favorite player and counts
\* above zero
C17_Witness ==
    /\ pc = "track2"
    /\ events = <<>>
    /\ HasFavorite
    /\ min_count >= 1
    /\ max_count >= 1
    /\ hl2 = <<>>

\* sentence 1 of the explanation, as the specification words it
Sentence1Text(e) ==
    LET type == IF e.type = "three_pointer" THEN "three pointer" ELSE e.type
    IN CASE e.importance = "critical" ->
              <<"This critical ", type, " by ", e.player,
                " was a defining moment of the game.">>
         [] e.importance = "high" ->
              <<"A high-impact ", type, " by ", e.player,
                " that made a significant difference.">>
         [] e.importance = "medium" ->
              <<"A notable ", type, " by ", e.player,
                " that contributed to the game's story.">>
         [] OTHER ->
              <<"This ", type, " by ", e.player,
                " added to the overall flow of the game.">>

\* the detail clauses in their fixed order: whether the clause applies, its
\* text, and its text with the first letter capitalised
DetailClauses(e, bd) ==
    << [on |-> InSeq(e.tags, "game_winner"),
        text |-> <<"sealed the victory">>,
        capital |-> <<"Sealed the victory">>],
       [on |-> InSeq(e.tags, "clutch") /\ e.quarter = 4,
        text |-> <<"in a clutch fourth-quarter moment">>,
        capital |-> <<"In a clutch fourth-quarter moment">>],
       [on |-> InSeq(e.tags, "clutch") /\ e.quarter # 4,
        text |-> <<"in a clutch moment">>,
        capital |-> <<"In a clutch moment">>],
       [on |-> InSeq(e.tags, "buzzer_beater"),
        text |-> <<"right at the buzzer">>,
        capital |-> <<"Right at the buzzer">>],
       [on |-> InSeq(e.tags, "highlight_reel") /\ ~InSeq(e.tags, "game_winner"),
        text |-> <<"a highlight-reel play">>,
        capital |-> <<"A highlight-reel play">>],
       [on |-> bd.player_boost > 0,
        text |-> <<"featuring your favorite player, ", e.player>>,
        capital |-> <<"Featuring your favorite player, ", e.player>>],
       [on |-> bd.team_boost > 0,
        text |-> <<"by your favorite team, the ", e.team>>,
        capital |-> <<"By your favorite team, the ", e.team>>] >>

ClauseApplies(c) == c.on

RECURSIVE ClauseList(_, _)
ClauseList(clauses, first) ==
    IF clauses = <<>> THEN <<>>
    ELSE (IF first THEN clauses[1].capital ELSE <<", ">> \o clauses[1].text)
            \o ClauseList(Tail(clauses), FALSE)

ExpectedExplanation(e, bd) ==
    LET applicable == SelectSeq(DetailClauses(e, bd), ClauseApplies)
    IN IF applicable = <<>> THEN Sentence1Text(e)
       ELSE Sentence1Text(e) \o <<" ">> \o ClauseList(applicable, TRUE) \o <<".">>

\* C18: the text of track1-speckit generate_explanation is sentence 1 alone
\* when no detail clause applies, and otherwise sentence 1, a space, and one
\* further sentence: the applicable clauses joined by ", " in the order
\* game_winner, clutch (the fourth-quarter wording exactly when quarter is 4,
\* the plain wording otherwise), buzzer_beater, highlight_reel (only without
\* game_winner), favorite player (exactly when player_boost > 0), favorite
\* team (exactly when team_boost > 0), each clause once, the first letter
\* capitalised, closed by a period.
C18_ExplanationClauses ==
    ex1 # <<>> => ex1[1] = ExpectedExplanation(ev[1], bd1[1])

\* a game winner of the highlight reel by the favorite player and team was
\* explained without the highlight-reel clause
C18_Witness ==
    /\ ex1 # <<>>
    /\ InSeq(ev[1].tags, "game_winner")
    /\ InSeq(ev[1].tags, "highlight_reel")
    /\ bd1[1].player_boost > 0
    /\ bd1[1].team_boost > 0
    /\ InSeq(ex1[1], "Sealed the victory")
    /\ InSeq(ex1[1], "by your favorite team, the ")
    /\ ~InSeq(ex1[1], "a highlight-reel play")

NamesPlayer(text, e) ==
    \E i \in 1..(Len(text) - 1) :
        text[i] = "featuring your favorite player " /\ text[i + 1] = e.player

NamesTeam(text, e) ==
    \E i \in 1..(Len(text) - 1) :
        text[i] = "by your favorite team " /\ text[i + 1] = e.team

\* C19: the text of track2-bmad _generate_explanation names the favorite
\* player whenever player_boost > 0 and names the favorite team whenever
\* team_boost > 0, so it names both when both boosts are positive.
C19_NamesFavorites ==
    ex2 # <<>>
        => /\ bd2[1].player_boost > 0 => NamesPlayer(ex2[1], ev[1])
           /\ bd2[1].team_boost > 0 => NamesTeam(ex2[1], ev[1])

\* key a = <<score, quarter, rank, id>> comes strictly before key b
Precedes(a, b) ==
    \/ a[1] > b[1]
    \/ a[1] = b[1] /\ a[2] > b[2]
    \/ a[1] = b[1] /\ a[2] = b[2] /\ a[3] > b[3]
    \/ a[1] = b[1] /\ a[2] = b[2] /\ a[3] = b[3] /\ StrLess(a[4], b[4])

KeyOf(e, score) == <<score, e.quarter, RankOf(e.importance), e.id>>

Omitted(hl) == {i \in NonCriticalInput : events[i].id \notin Ids(hl)}

\* all events are non-critical and differ in the id alone
FullyTied ==
    /\ CriticalInput = {}
    /\ \A i, j \in 1..Len(events) :
          [events[i] EXCEPT !.id = <<>>] = [events[j] EXCEPT !.id = <<>>]

\* the returned ids are the smallest ids of the input, in ascending order
SmallestIds(hl) ==
    /\ \A k \in 1..(Len(hl) - 1) : StrLess(hl[k].event.id, hl[k + 1].event.id)
    /\ \A i \in Omitted(hl) : \A k \in 1..Len(hl) :
          StrLess(hl[k].event.id, events[i].id)

C21_RoundTripOriginal == back # <<>> => back[1] = ev[1]

Recognised(importance) == importance \in {"critical", "high", "medium", "low"}

\* C21: GameEvent.from_dict(e.to_dict()) of track1-speckit equals e when the
\* importance of e is critical, high, medium or low, and equals e with the
\* importance replaced by "low" for every other importance string.
C21_RoundTrip ==
    back # <<>>
        => back[1] = IF Recognised(ev[1].importance) THEN ev[1]
                     ELSE [ev[1] EXCEPT !.importance = "low"]

\* an overtime event with two tags and an importance outside the table went
\* through to_dict and from_dict
C21_Witness ==
    /\ back # <<>>
    /\ ev[1].importance = "legendary"
    /\ ev[1].quarter = 5
    /\ Len(ev[1].tags) = 2
    /\ back[1].importance = "low"
    /\ back[1].tags = ev[1].tags

C23_NoInvention ==
    /\ pc = "track1"
         => /\ \A k \in 1..Len(hl1) : \E i \in 1..Len(events) :
                  /\ events[i] = hl1[k].event
                  /\ hl1[k].score = score_event(events[i], pref).total_score
            /\ \A k, l \in 1..Len(hl1) :
                  hl1[k].event.id = hl1[l].event.id => k = l
    /\ pc = "track2"
         => /\ \A k \in 1..Len(hl2) : \E i \in 1..Len(events) :
                  /\ events[i] = hl2[k].event
                  /\ hl2[k].score = calculate_score(events[i], pref).total_score
            /\ \A k, l \in 1..Len(hl2) :
                  hl2[k].event.id = hl2[l].event.id => k = l

\* track2-bmad returned a tagged play of the favorite player among three or
\* more highlights
C23_Witness ==
    /\ pc = "track2"
    /\ HasFavorite
    /\ Len(hl2) >= 3
    /\ \E k \in 1..Len(hl2) :
          /\ hl2[k].event.player = pref[1].favorite_player
          /\ hl2[k].event.tags # <<>>
          /\ hl2[k].score > 100

C27_MinCountNoInfluence ==
    /\ (pc = "track1" /\ min_count <= max_count)
         => \A m \in 0..max_count :
               hl1 = select_highlights1(events, pref, m, max_count)
    /\ (pc = "track2" /\ min_count <= max_count)
         => \A m \in 0..max_count :
               hl2 = select_highlights2(events, pref, m, max_count)

\* track2-bmad cut down a list with more non-critical events than max_count,
\* called with min_count below max_count
C27_Witness ==
    /\ pc = "track2"
    /\ min_count < max_count
    /\ Cardinality(NonCriticalInput) > max_count
    /\ Cardinality(NonCriticalIn(hl2)) = max_count

\* in the output an event of unrecognized importance stands behind every
\* event of recognized importance with the same score and quarter
UnknownLast(hl) ==
    \A a, b \in 1..Len(hl) :
        (/\ ~Recognised(hl[a].event.importance)
         /\ Recognised(hl[b].event.importance)
         /\ hl[a].score = hl[b].score
         /\ hl[a].event.quarter = hl[b].event.quarter) => b < a

UnknownIn(hl) == {k \in 1..Len(hl) : ~Recognised(hl[k].event.importance)}

\* C24: in both implementations an event whose importance is not critical,
\* high, medium or low has rank 0 in the comparator: in the output it stands
\* behind every event of recognized importance (low included) with the same
\* total score and quarter, whatever the ids; and it is not included by
\* force: track1-speckit returns none when the critical events fill
\* max_count, and track2-bmad counts it among the non-critical events, of
\* which it returns at most max(min_count, max_count).
C24_UnknownImportance ==
    /\ pc = "track1"
         => /\ UnknownLast(hl1)
            /\ Cardinality(CriticalInput) >= max_count => UnknownIn(hl1) = {}
    /\ pc = "track2"
         => /\ UnknownLast(hl2)
            /\ Cardinality(NonCriticalIn(hl2)) <= Max(min_count, max_count)

\* a low event with id "3" is ranked before an event of unknown importance
\* with id "10", the same score and the same quarter
C24_Witness ==
    /\ pc \in {"track1", "track2"}
    /\ \E a, b \in 1..(Len(hl1) + Len(hl2)) :
          LET hl == hl1 \o hl2
          IN /\ a < b
             /\ hl[a].event.importance = "low"
             /\ hl[a].event.id = <<3>>
             /\ hl[b].event.importance = "legendary"
             /\ hl[b].event.id = <<1, 0>>
             /\ hl[a].score = hl[b].score
             /\ hl[a].event.quarter = hl[b].event.quarter

Entries(ctx) == {ctx[k] : k \in 1..Len(ctx)}

\* two breakdowns with the same components; context_boosts compared as dicts
SameBreakdown(a, b) ==
    /\ a.base_score = b.base_score
    /\ a.player_boost = b.player_boost
    /\ a.team_boost = b.team_boost
    /\ Entries(a.context_boosts) = Entries(b.context_boosts)
    /\ Len(a.context_boosts) = Len(b.context_boosts)
    /\ a.total_score = b.total_score

\* C28: in both implementations the breakdown of an event depends only on
\* the set of its tags: two events that differ in the tag list alone, the two
\* lists naming the same tags in any order and with any repetition, get the
\* same base_score, player_boost, team_boost, context_boosts and total_score.
C28_TagSetOnly ==
    /\ (pc = "tags" /\ bd1 # <<>>) => SameBreakdown(bd1[1], bd1[2])
    /\ (pc = "tags" /\ bd2 # <<>>) => SameBreakdown(bd2[1], bd2[2])

\* both implementations scored an event that lists the tag clutch twice and
\* the event that lists it once
C28_Witness ==
    /\ pc = "tags"
    /\ bd1 # <<>>
    /\ bd2 # <<>>
    /\ ev[1].tags = <<"clutch", "clutch">>
    /\ ev[2].tags = <<"clutch">>
    /\ bd1[1].context_boosts = << <<"clutch", 20>> >>
    /\ bd2[1].context_boosts = << <<"clutch", 20>> >>

\* C29: for every event and preference, track1-speckit score_event and
\* track2-bmad calculate_score return the same total_score.
C29_TracksAgree ==
    (bd1 # <<>> /\ bd2 # <<>>) => bd1[1].total_score = bd2[1].total_score

====
